---- MODULE Spec2Model ----
(***************************************************************************)
(* A model of src/main.go: the hash-linked chain of book checkouts, its    *)
(* append and validation logic, and its persistence to blockchain.json.    *)
(*                                                                         *)
(* Go values are modelled as follows.                                      *)
(*   - a *Block is a record with the fields of type Block, or NilBlock;    *)
(*   - a string is a TLA+ string, string concatenation is \o;              *)
(*   - a JSON document is a record keyed by the JSON member names, which   *)
(*     differ from the Go field names where the struct carries json tags;  *)
(*   - the file system is a set of file objects (inodes), each with the    *)
(*     directory names that link to it and the threads that hold it open   *)
(*     (POSIX semantics: a rename replaces its target, an open descriptor  *)
(*     follows the inode, not the name).                                   *)
(***************************************************************************)
EXTENDS Integers, Sequences, FiniteSets, TLC

(***************************************************************************)
(* Bounds of the model.                                                    *)
(***************************************************************************)
\* Appends are accepted while the chain holds fewer blocks than this.
MaxBlocks == 3
\* The same, while handlers run concurrently.
MaxConcBlocks == 2
\* The process is restarted after a crash at most this many times.
MaxCrashes == 1
\* A pair of blocks is validated at most this many times in a row.
MaxValidations == 2
\* The positions a tampered block may be given run from 0 to this.
MaxTamperPos == 3

\* chainFile and the temporary name saveBlockchain derives from it.
chainFile == "blockchain.json"
tmpFile == chainFile \o ".tmp"

\* The goroutines: main, and the handler goroutines net/http starts.
Handlers == {"h1", "h2"}
Threads == {"main"} \cup Handlers

\* What time.Now().Format(time.RFC3339) may return: the wall clock is read
\* at second granularity and is not monotonic, so any value may follow any.
Times == {"2024-01-01T00:00:00Z", "2024-01-01T00:00:01Z"}

\* The decoded request bodies handed to AddBlock.
Payloads ==
    { [BookId |-> "b1", User |-> "alice", CheckoutDate |-> "2024-01-01", IsGenesis |-> FALSE],
      [BookId |-> "b2", User |-> "carol", CheckoutDate |-> "2024-01-02", IsGenesis |-> FALSE] }

(***************************************************************************)
(* Types of main.go.                                                       *)
(***************************************************************************)
\* The zero value of BookCheckout.
ZeroCheckout == [BookId |-> "", User |-> "", CheckoutDate |-> "", IsGenesis |-> FALSE]

\* A nil *Block.
NilBlock == [nil |-> TRUE]

\* A nil *Blockchain (what loadBlockchain returns on failure).
NilChain == [nil |-> TRUE]

(***************************************************************************)
(* encoding/json, as far as main.go uses it.                               *)
(***************************************************************************)
\* The JSON value null.
JNull == [null |-> TRUE]

\* A member of a JSON object, or the Go zero value when the member is absent
\* (Unmarshal leaves the field untouched).
Member(obj, key, zero) ==
    IF key \in DOMAIN obj THEN obj[key] ELSE zero

\* json.Marshal of a BookCheckout: the members are named by the json tags.
MarshalCheckout(d) ==
    [bookid |-> d.BookId, user |-> d.User,
     checkout_date |-> d.CheckoutDate, is_genesis |-> d.IsGenesis]

\* The text json.Marshal produces for a BookCheckout (compact, in field order).
CheckoutText(d) ==
    LET o == MarshalCheckout(d) IN
    "{\"bookid\":\"" \o o.bookid \o "\",\"user\":\"" \o o.user
        \o "\",\"checkout_date\":\"" \o o.checkout_date
        \o "\",\"is_genesis\":" \o (IF o.is_genesis THEN "true" ELSE "false") \o "}"

\* An Unmarshal whose struct tag for BookId is misspelt.
UnmarshalCheckoutMistagged(o) ==
    [BookId |-> Member(o, "book_id", ""), User |-> Member(o, "user", ""),
     CheckoutDate |-> Member(o, "checkout_date", ""),
     IsGenesis |-> Member(o, "is_genesis", FALSE)]

\* json.Unmarshal into a BookCheckout.
UnmarshalCheckout(o) ==
    [BookId |-> Member(o, "bookid", ""), User |-> Member(o, "user", ""),
     CheckoutDate |-> Member(o, "checkout_date", ""),
     IsGenesis |-> Member(o, "is_genesis", FALSE)]

\* json.Marshal of a *Block: Block carries no tags, so the members are named
\* by the Go fields; a nil pointer is written as null.
MarshalBlock(b) ==
    IF b = NilBlock THEN JNull
    ELSE [Pos |-> b.Pos, Data |-> MarshalCheckout(b.Data), Timestamp |-> b.Timestamp,
          Hash |-> b.Hash, Prevhash |-> b.Prevhash]

\* json.Unmarshal into a *Block: null gives a nil pointer, an object a new
\* Block whose absent members keep their zero value.
UnmarshalBlock(o) ==
    IF o = JNull THEN NilBlock
    ELSE [Pos |-> Member(o, "Pos", 0),
          Data |-> UnmarshalCheckout(Member(o, "Data", MarshalCheckout(ZeroCheckout))),
          Timestamp |-> Member(o, "Timestamp", ""),
          Hash |-> Member(o, "Hash", ""),
          Prevhash |-> Member(o, "Prevhash", "")]

\* The elements of a []*Block written as a JSON array.
RECURSIVE MarshalBlocks(_)
MarshalBlocks(bs) ==
    IF bs = <<>> THEN <<>> ELSE <<MarshalBlock(Head(bs))>> \o MarshalBlocks(Tail(bs))

\* The elements of a JSON array read as a []*Block.
RECURSIVE UnmarshalBlocks(_)
UnmarshalBlocks(js) ==
    IF js = <<>> THEN <<>> ELSE <<UnmarshalBlock(Head(js))>> \o UnmarshalBlocks(Tail(js))

\* json.Marshal of a Blockchain: one member, named by the tag "blocks".
MarshalChain(bc) == [blocks |-> MarshalBlocks(bc.Blocks)]

\* json.Unmarshal into a Blockchain.
UnmarshalChain(doc) == [Blocks |-> UnmarshalBlocks(Member(doc, "blocks", <<>>))]

(***************************************************************************)
(* Hashing and block construction.                                         *)
(***************************************************************************)
\* hex.EncodeToString(sha256.Sum(data)): the digest is taken to be injective,
\* and is written as the text it digests between brackets.
Sha256Hex(data) == "sha256(" \o data \o ")"

\* fmt.Sprintf("%d%s%s%s", b.Pos, b.Timestamp, string(bytes), b.Prevhash)
Preimage(b) == ToString(b.Pos) \o b.Timestamp \o CheckoutText(b.Data) \o b.Prevhash

\* (b *Block).generateHash: the block with its Hash recomputed.
generateHash(b) == [b EXCEPT !.Hash = Sha256Hex(Preimage(b))]

\* CreateBlock, given what time.Now().Format(time.RFC3339) returned.
CreateBlock(prevBlock, checkoutitem, now) ==
    generateHash([Pos |-> prevBlock.Pos + 1, Data |-> checkoutitem, Timestamp |-> now,
                  Hash |-> "", Prevhash |-> prevBlock.Hash])

\* A ValidateHash that compares the recomputed hash with itself.
ValidateHashSelf(b, hash) ==
    LET nb == generateHash(b) IN [ok |-> nb.Hash = nb.Hash, block |-> nb]

\* (b *Block).ValidateHash: the receiver is rehashed in place, and its new
\* Hash is compared with the argument.
ValidateHash(b, hash) ==
    LET nb == generateHash(b) IN [ok |-> nb.Hash = hash, block |-> nb]

\* validBlock: the result, and the block as validation leaves it.
validBlock(block, prevBlock) ==
    IF prevBlock.Hash # block.Prevhash THEN [ok |-> FALSE, block |-> block]
    ELSE LET v == ValidateHash(block, block.Hash) IN
         IF ~v.ok THEN [ok |-> FALSE, block |-> v.block]
         ELSE IF prevBlock.Pos + 1 # block.Pos THEN [ok |-> FALSE, block |-> v.block]
         ELSE [ok |-> TRUE, block |-> v.block]

\* A genesis block whose hash is never computed.
GenesisBlockUnhashed(now) ==
    [Pos |-> 0, Timestamp |-> now, Data |-> [ZeroCheckout EXCEPT !.IsGenesis = TRUE],
     Hash |-> "", Prevhash |-> ""]

\* GenesisBlock, given what time.Now().Format(time.RFC3339) returned.
GenesisBlock(now) ==
    generateHash([Pos |-> 0, Timestamp |-> now,
                  Data |-> [ZeroCheckout EXCEPT !.IsGenesis = TRUE],
                  Hash |-> "", Prevhash |-> ""])

(***************************************************************************)
(* The file system.  A file object is                                      *)
(*   [names |-> the directory names linked to it,                          *)
(*    fds   |-> the threads holding it open for writing,                   *)
(*    mode  |-> "rw", or "none" when the process may not read it,          *)
(*    data  |-> its content].                                              *)
(* A content is [kind, doc]: kind "json" holds the JSON document doc,      *)
(* kind "empty" is a file of no bytes, kind "garbage" is text that is not  *)
(* one JSON document (a partial write, or one document laid over another). *)
(***************************************************************************)
Empty == [kind |-> "empty", doc |-> JNull]
Garbage == [kind |-> "garbage", doc |-> JNull]
Json(doc) == [kind |-> "json", doc |-> doc]

\* What a lookup of a name that links to nothing gives.
NoFile == [names |-> {}, fds |-> {}, mode |-> "none", data |-> Empty]

\* The files an object set keeps: those with a name or an open descriptor.
Live(files) == {f \in files : f.names # {} \/ f.fds # {}}

\* os.Stat(name) succeeds.
Exists(files, name) == \E f \in files : name \in f.names

\* The file a name links to.
Lookup(files, name) ==
    IF Exists(files, name) THEN CHOOSE f \in files : name \in f.names ELSE NoFile

\* The number of blocks a document holds, which orders documents by the
\* length of their text: the payloads, timestamps and digests of the model
\* have one length each.
DocSize(data) ==
    IF data.kind = "json" /\ "blocks" \in DOMAIN data.doc
    THEN Len(data.doc.blocks) ELSE 0

\* The contents a file may hold after one Write of a whole document at
\* offset 0: the document when it covers what was there, else the document
\* followed by the tail of the old content.
Overlay(old, new) ==
    CASE old.kind = "empty" -> {new}
      [] old.kind = "json" -> IF DocSize(new) >= DocSize(old) THEN {new} ELSE {Garbage}
      [] OTHER -> {new, Garbage}

\* os.Create(name) by thread p: an existing file is truncated, else a new
\* one is linked; p holds it open.
FsCreate(files, name, p) ==
    IF Exists(files, name)
    THEN LET f == Lookup(files, name) IN
         (files \ {f}) \cup {[f EXCEPT !.fds = @ \cup {p}, !.data = Empty]}
    ELSE files \cup {[names |-> {name}, fds |-> {p}, mode |-> "rw", data |-> Empty]}

\* The file thread p holds open.
OpenFile(files, p) == CHOOSE f \in files : p \in f.fds

\* A write through p's descriptor that leaves the content data.
FsWrite(files, p, data) ==
    LET f == OpenFile(files, p) IN (files \ {f}) \cup {[f EXCEPT !.data = data]}

\* file.Close() by thread p.
FsClose(files, p) ==
    Live({[f EXCEPT !.fds = @ \ {p}] : f \in files})

\* os.Remove(name).
FsRemove(files, name) ==
    Live({[f EXCEPT !.names = @ \ {name}] : f \in files})

\* os.Rename(from, to), from existing: to is unlinked from what it named
\* and linked to from's file, in one step.
FsRename(files, from, to) ==
    Live({[f EXCEPT !.names = IF from \in @ THEN (@ \ {from}) \cup {to} ELSE @ \ {to}]
          : f \in files})

\* The process ends: every descriptor is closed.
FsCloseAll(files) == Live({[f EXCEPT !.fds = {}] : f \in files})

\* What chainFile is at one moment: whether it exists, and its mode and
\* content if it does.
Canon(files) ==
    LET f == Lookup(files, chainFile) IN
    [exists |-> Exists(files, chainFile), mode |-> f.mode, data |-> f.data]

\* fileExists
fileExists(files, name) == Exists(files, name)

\* A load that reads the temporary file when one is there.
loadBlockchainTmpFirst(files) ==
    LET f == IF Exists(files, tmpFile) THEN Lookup(files, tmpFile)
             ELSE Lookup(files, chainFile) IN
    IF f.names = {} \/ f.mode # "rw" THEN NilChain
    ELSE IF f.data.kind # "json" THEN NilChain
    ELSE UnmarshalChain(f.data.doc)

\* loadBlockchain: the chain read from chainFile, or nil when the file
\* cannot be read or its content is not one JSON document.
loadBlockchain(files) ==
    LET f == Lookup(files, chainFile) IN
    IF ~Exists(files, chainFile) \/ f.mode # "rw" THEN NilChain
    ELSE IF f.data.kind # "json" THEN NilChain
    ELSE UnmarshalChain(f.data.doc)

(***************************************************************************)
(* The state of the process and of its directory.                          *)
(***************************************************************************)
VARIABLES
    fs,          \* the files of the working directory
    BlockChain,  \* the global BlockChain, NilChain until main assigns it
    pc,          \* where each goroutine stands
    loc,         \* the local variables of each goroutine
    foreign,     \* chainFile as first found held blocks this program did not write
    crashes,     \* how many times the process was killed and started again
    probe        \* a pair of blocks under validation, outside the chain

vars == <<fs, BlockChain, pc, loc, foreign, crashes, probe>>

\* The locals of a goroutine that runs nothing.
\*   bc        the chain NewBlockChain builds or loads (main)
\*   data      the decoded checkout (writeBlock)
\*   prevBlock, block   the locals of AddBlock
\*   slice     bc.Blocks as append read it
\*   bytes     the document the Encoder has marshalled and not yet written
\*   before    what chainFile was when NewBlockChain (main) or saveBlockchain
\*             (a handler) was called
\*   save      how saveBlockchain ended: "none" while it has not, "ok", or
\*             the step that failed: "create", "encode", "rename"
NoLocals ==
    [bc |-> NilChain, data |-> ZeroCheckout, prevBlock |-> NilBlock, block |-> NilBlock,
     slice |-> <<>>, bytes |-> JNull, before |-> Canon({}), save |-> "none"]

NoProbe == [state |-> "none", prev |-> NilBlock, block |-> NilBlock,
            field |-> "", ok |-> FALSE, runs |-> 0]

\* A block list chainFile may hold that no run of this program wrote.
ForeignBlocks ==
    { <<JNull>>,
      <<[Pos |-> 5, Data |-> MarshalCheckout(CHOOSE d \in Payloads : d.BookId = "b1"),
         Timestamp |-> "2023-12-31T23:59:59Z", Hash |-> "abc", Prevhash |-> "def"]>> }

\* What the working directory may hold when the process is first started:
\* nothing, a chainFile that cannot be read, one that is not JSON, one with
\* no blocks, or one with blocks of foreign making.
InitialDirs ==
    { {} }
    \cup { {[names |-> {chainFile}, fds |-> {}, mode |-> m, data |-> d]} :
             m \in {"rw"}, d \in {Empty, Garbage, Json([blocks |-> <<>>]), Json([version |-> 1])} }
    \cup { {[names |-> {chainFile}, fds |-> {}, mode |-> "none", data |-> Json([blocks |-> <<>>])]} }
    \cup { {[names |-> {chainFile}, fds |-> {}, mode |-> "rw", data |-> Json([blocks |-> bs])]} :
             bs \in ForeignBlocks }

InitProcess ==
    /\ BlockChain = NilChain
    /\ pc = [p \in Threads |-> IF p = "main" THEN "start" ELSE "idle"]
    /\ loc = [p \in Threads |-> NoLocals]
    /\ crashes = 0

Init ==
    /\ fs \in InitialDirs
    /\ foreign = (loadBlockchain(fs) # NilChain /\ loadBlockchain(fs).Blocks # <<>>)
    /\ InitProcess
    /\ probe = NoProbe

\* A save that is handed the chain as it was before the append.
ChainOfBeforeAppend(p) == IF p = "main" THEN loc[p].bc ELSE [Blocks |-> loc[p].slice]

\* The chain saveBlockchain was handed: NewBlockChain's local in main, the
\* global in a handler.
ChainOf(p) == IF p = "main" THEN loc[p].bc ELSE BlockChain

\* saveBlockchain returns to its caller: NewBlockChain returns in turn, and
\* AddBlock returns to writeBlock, which answers.
AfterSave(p) == IF p = "main" THEN "ret" ELSE "respond"

(***************************************************************************)
(* Startup: main calls NewBlockChain, assigns the global and serves.       *)
(***************************************************************************)
\* The test without its length check.
AdoptableAnyLength(loaded) == loaded # NilChain

\* The test of NewBlockChain on what loadBlockchain returned.
Adoptable(loaded) == loaded # NilChain /\ Len(loaded.Blocks) > 0

\* NewBlockChain up to its return or its call of saveBlockchain: the loaded
\* chain is returned as it is, else a chain of one genesis block is saved.
NewBlockChain ==
    /\ pc["main"] = "start"
    /\ LET loaded == IF fileExists(fs, chainFile) THEN loadBlockchain(fs) ELSE NilChain IN
       IF Adoptable(loaded)
       THEN /\ loc' = [loc EXCEPT !["main"].bc = loaded, !["main"].before = Canon(fs)]
            /\ pc' = [pc EXCEPT !["main"] = "ret"]
       ELSE \E now \in Times :
            /\ loc' = [loc EXCEPT !["main"].bc = [Blocks |-> <<GenesisBlock(now)>>],
                                  !["main"].before = Canon(fs)]
            /\ pc' = [pc EXCEPT !["main"] = "create"]
    /\ UNCHANGED <<fs, BlockChain, foreign, crashes, probe>>

\* main: BlockChain = NewBlockChain(), then the router is set up and
\* http.ListenAndServe starts the handlers.
Listen ==
    /\ pc["main"] = "ret"
    /\ BlockChain' = loc["main"].bc
    /\ pc' = [pc EXCEPT !["main"] = "serving"]
    /\ loc' = [loc EXCEPT !["main"] = NoLocals]
    /\ UNCHANGED <<fs, foreign, crashes, probe>>

(***************************************************************************)
(* A POST / request: writeBlock decodes the body and calls AddBlock.  A    *)
(* body that does not decode is answered 400 and changes nothing.          *)
(***************************************************************************)
\* An append that puts the new block first.
AppendBlockFront(blocks, block) == <<block>> \o blocks

\* An append whose result is dropped.
AppendBlockLost(blocks, block) == blocks

\* An append that overwrites the last block.
AppendBlockOverLast(blocks, block) == [blocks EXCEPT ![Len(blocks)] = block]

\* bc.Blocks = append(bc.Blocks, block), given bc.Blocks as it was read.
AppendBlock(blocks, block) == Append(blocks, block)

\* writeBlock up to AddBlock's test of validBlock.  Reading the last block
\* of an empty chain and reading prevBlock.Pos through a nil pointer both
\* panic; net/http recovers the panic of a handler.
AddBlock(p, data) ==
    /\ pc["main"] = "serving"
    /\ pc[p] = "idle"
    /\ IF BlockChain.Blocks = <<>> \/ BlockChain.Blocks[Len(BlockChain.Blocks)] = NilBlock
       THEN /\ pc' = [pc EXCEPT ![p] = "panic"]
            /\ loc' = [loc EXCEPT ![p].data = data]
       ELSE \E now \in Times :
            LET prevBlock == BlockChain.Blocks[Len(BlockChain.Blocks)]
                v == validBlock(CreateBlock(prevBlock, data, now), prevBlock)
            IN /\ loc' = [loc EXCEPT ![p].data = data, ![p].prevBlock = prevBlock,
                                     ![p].block = v.block]
               /\ pc' = [pc EXCEPT ![p] = IF v.ok THEN "append" ELSE "respond"]
    /\ UNCHANGED <<fs, BlockChain, foreign, crashes, probe>>

\* append reads the slice bc.Blocks ...
AppendRead(p) ==
    /\ pc[p] = "append"
    /\ loc' = [loc EXCEPT ![p].slice = BlockChain.Blocks]
    /\ pc' = [pc EXCEPT ![p] = "store"]
    /\ UNCHANGED <<fs, BlockChain, foreign, crashes, probe>>

\* ... and the grown slice is stored in bc.Blocks; AddBlock then calls
\* saveBlockchain.  Nothing orders the read and the store of two handlers.
AppendStore(p) ==
    /\ pc[p] = "store"
    /\ BlockChain' = [BlockChain EXCEPT !.Blocks = AppendBlock(loc[p].slice, loc[p].block)]
    /\ loc' = [loc EXCEPT ![p].before = Canon(fs)]
    /\ pc' = [pc EXCEPT ![p] = "create"]
    /\ UNCHANGED <<fs, foreign, crashes, probe>>

\* writeBlock answers 201 and the handler ends.
Respond(p) ==
    /\ pc[p] = "respond"
    /\ pc' = [pc EXCEPT ![p] = "idle"]
    /\ loc' = [loc EXCEPT ![p] = NoLocals]
    /\ UNCHANGED <<fs, BlockChain, foreign, crashes, probe>>

\* net/http recovers a handler's panic and drops the connection.
Recover(p) ==
    /\ pc[p] = "panic"
    /\ pc' = [pc EXCEPT ![p] = "idle"]
    /\ loc' = [loc EXCEPT ![p] = NoLocals]
    /\ UNCHANGED <<fs, BlockChain, foreign, crashes, probe>>

(***************************************************************************)
(* saveBlockchain, one system call a step.                                 *)
(***************************************************************************)
\* saveBlockchain returns, having ended as how says.
SaveEnds(p, how) ==
    /\ loc' = [loc EXCEPT ![p].save = how, ![p].bytes = JNull]
    /\ pc' = [pc EXCEPT ![p] = AfterSave(p)]

\* os.Create(tmp) succeeds.
SaveCreate(p) ==
    /\ pc[p] = "create"
    /\ fs' = FsCreate(fs, tmpFile, p)
    /\ pc' = [pc EXCEPT ![p] = "marshal"]
    /\ UNCHANGED <<BlockChain, loc, foreign, crashes, probe>>

\* os.Create(tmp) fails: logged, return.
SaveCreateFails(p) ==
    /\ pc[p] = "create"
    /\ SaveEnds(p, "create")
    /\ UNCHANGED <<fs, BlockChain, foreign, crashes, probe>>

\* encoder.Encode(bc) marshals the chain into its buffer ...
SaveMarshal(p) ==
    /\ pc[p] = "marshal"
    /\ loc' = [loc EXCEPT ![p].bytes = MarshalChain(ChainOf(p))]
    /\ pc' = [pc EXCEPT ![p] = "write"]
    /\ UNCHANGED <<fs, BlockChain, foreign, crashes, probe>>

\* ... and writes the buffer to the file in one Write; file.Close().
SaveWrite(p) ==
    /\ pc[p] = "write"
    /\ \E data \in Overlay(OpenFile(fs, p).data, Json(loc[p].bytes)) :
          fs' = FsClose(FsWrite(fs, p, data), p)
    /\ pc' = [pc EXCEPT ![p] = "remove"]
    /\ UNCHANGED <<BlockChain, loc, foreign, crashes, probe>>

\* The Write fails, having written nothing or a part: logged, file.Close(),
\* return.
SaveWriteFails(p) ==
    /\ pc[p] = "write"
    /\ \E data \in {OpenFile(fs, p).data, Garbage} :
          fs' = FsClose(FsWrite(fs, p, data), p)
    /\ SaveEnds(p, "encode")
    /\ UNCHANGED <<BlockChain, foreign, crashes, probe>>

\* if os.Stat(chainFile) succeeds, os.Remove(chainFile).
SaveRemove(p) ==
    /\ pc[p] = "remove"
    /\ fs' = IF Exists(fs, chainFile) THEN FsRemove(fs, chainFile) ELSE fs
    /\ pc' = [pc EXCEPT ![p] = "rename"]
    /\ UNCHANGED <<BlockChain, loc, foreign, crashes, probe>>

\* os.Remove(chainFile) fails; its error is not looked at.
SaveRemoveFails(p) ==
    /\ pc[p] = "remove"
    /\ Exists(fs, chainFile)
    /\ pc' = [pc EXCEPT ![p] = "rename"]
    /\ UNCHANGED <<fs, BlockChain, loc, foreign, crashes, probe>>

\* os.Rename(tmp, chainFile); it fails when tmp is no longer there.
SaveRename(p) ==
    /\ pc[p] = "rename"
    /\ IF Exists(fs, tmpFile)
       THEN /\ fs' = FsRename(fs, tmpFile, chainFile)
            /\ SaveEnds(p, "ok")
       ELSE /\ fs' = fs
            /\ SaveEnds(p, "rename")
    /\ UNCHANGED <<BlockChain, foreign, crashes, probe>>

\* os.Rename(tmp, chainFile) fails for a reason of the system's: logged.
SaveRenameFails(p) ==
    /\ pc[p] = "rename"
    /\ SaveEnds(p, "rename")
    /\ UNCHANGED <<fs, BlockChain, foreign, crashes, probe>>

\* The steps of saveBlockchain when every system call succeeds.
Save(p) ==
    \/ SaveCreate(p)
    \/ SaveMarshal(p)
    \/ SaveWrite(p)
    \/ SaveRemove(p)
    \/ SaveRename(p)

\* The steps of saveBlockchain at which a system call fails.
SaveFails(p) ==
    \/ SaveCreateFails(p)
    \/ SaveWriteFails(p)
    \/ SaveRemoveFails(p)
    \/ SaveRenameFails(p)

\* A request reaches handler p while the chain holds fewer than max blocks.
Request(p, max) ==
    /\ BlockChain # NilChain
    /\ Len(BlockChain.Blocks) < max
    /\ \E data \in Payloads : AddBlock(p, data)

\* The later steps of a handler goroutine.
Handler(p) ==
    \/ AppendRead(p)
    \/ AppendStore(p)
    \/ Respond(p)

\* The process is killed and started again: its memory and descriptors are
\* gone, the directory stays.
Crash ==
    /\ crashes < MaxCrashes
    /\ crashes' = crashes + 1
    /\ fs' = FsCloseAll(fs)
    /\ BlockChain' = NilChain
    /\ pc' = [p \in Threads |-> IF p = "main" THEN "start" ELSE "idle"]
    /\ loc' = [p \in Threads |-> NoLocals]
    /\ UNCHANGED <<foreign, probe>>

(***************************************************************************)
(* One writer: requests arrive one after the other, system calls may fail, *)
(* and the process may be killed at any step.                              *)
(***************************************************************************)
Next ==
    \/ NewBlockChain
    \/ Listen
    \/ Request("h1", MaxBlocks)
    \/ Handler("h1")
    \/ Recover("h1")
    \/ \E p \in {"main", "h1"} : Save(p) \/ SaveFails(p)
    \/ Crash

Spec == Init /\ [][Next]_vars

(***************************************************************************)
(* Concurrent writers on a fresh directory: every handler goroutine may    *)
(* run, no system call fails unless the file system makes it.              *)
(***************************************************************************)
InitConc == Init /\ fs = {}

NextConc ==
    \/ NewBlockChain
    \/ Listen
    \/ \E p \in Handlers : Request(p, MaxConcBlocks) \/ Handler(p)
    \/ \E p \in Threads : Save(p)

SpecConc == InitConc /\ [][NextConc]_vars

(***************************************************************************)
(* Validation of a block outside AddBlock: a block that validly succeeds   *)
(* its predecessor is taken, one of its fields is overwritten while its    *)
(* Hash is left as it was, and validBlock is called on the pair.           *)
(***************************************************************************)
\* The values a field may be overwritten with.
TamperValues(field) ==
    CASE field = "Pos" -> 0..MaxTamperPos
      [] field = "Timestamp" -> Times \cup {"024-01-01T00:00:00Z"}
      [] field = "Data" -> Payloads \cup {[ZeroCheckout EXCEPT !.IsGenesis = TRUE]}
      [] field = "Prevhash" -> {"", "abc"} \cup {GenesisBlock(t).Hash : t \in Times}

TamperFields == {"Pos", "Timestamp", "Data", "Prevhash"}

\* block with one field overwritten.
Overwrite(block, field, value) ==
    CASE field = "Pos" -> [block EXCEPT !.Pos = value]
      [] field = "Timestamp" -> [block EXCEPT !.Timestamp = value]
      [] field = "Data" -> [block EXCEPT !.Data = value]
      [] field = "Prevhash" -> [block EXCEPT !.Prevhash = value]

\* The predecessors tried: genesis blocks, their successors, and a block
\* read from a file of foreign making.
ProbePrevs ==
    {GenesisBlock(t) : t \in Times}
    \cup {CreateBlock(GenesisBlock(t), d, u) : t \in Times, d \in Payloads, u \in Times}
    \cup {UnmarshalBlock(bs[1]) : bs \in {fb \in ForeignBlocks : fb[1] # JNull}}

\* The pairs (prev, block) with validBlock(block, prev) true.
InitProbe ==
    /\ fs = {}
    /\ foreign = FALSE
    /\ InitProcess
    /\ \E prev \in ProbePrevs, d \in Payloads, now \in Times :
         /\ validBlock(CreateBlock(prev, d, now), prev).ok
         /\ probe = [state |-> "valid", prev |-> prev, block |-> CreateBlock(prev, d, now),
                     field |-> "", ok |-> FALSE, runs |-> 0]

\* One field of the block is given another value; its Hash is not recomputed.
Tamper(field, value) ==
    /\ probe.state = "valid"
    /\ probe.runs = 0
    /\ Overwrite(probe.block, field, value) # probe.block
    /\ probe' = [probe EXCEPT !.state = "tampered", !.field = field,
                              !.block = Overwrite(probe.block, field, value)]
    /\ UNCHANGED <<fs, BlockChain, pc, loc, foreign, crashes>>

\* validBlock(block, prev) is called: its result is kept, and the block is
\* left as ValidateHash made it.
Validate ==
    /\ probe.state # "none"
    /\ probe.runs < MaxValidations
    /\ LET v == validBlock(probe.block, probe.prev) IN
       probe' = [probe EXCEPT !.ok = v.ok, !.block = v.block, !.runs = @ + 1]
    /\ UNCHANGED <<fs, BlockChain, pc, loc, foreign, crashes>>

NextProbe ==
    \/ \E field \in TamperFields : \E value \in TamperValues(field) : Tamper(field, value)
    \/ Validate

SpecProbe == InitProbe /\ [][NextProbe]_vars

(***************************************************************************)
(* Properties.                                                             *)
(***************************************************************************)
\* The positions count from 0 and every block names the hash before it.
Linked(blocks) ==
    \A i \in 1..Len(blocks) :
        /\ blocks[i] # NilBlock
        /\ blocks[i].Pos = i - 1
        /\ i > 1 => blocks[i].Prevhash = blocks[i - 1].Hash

\* b is a genesis block whose stored hash is the hash of its fields.
IsGenesisBlock(b) ==
    /\ b # NilBlock
    /\ b.Pos = 0
    /\ b.Prevhash = ""
    /\ b.Data.IsGenesis
    /\ b.Hash = Sha256Hex(Preimage(b))

\* A chainFile that exists, can be read and holds a document with at least
\* one block.
AdoptableFile(c) ==
    /\ c.exists
    /\ c.mode = "rw"
    /\ c.data.kind = "json"
    /\ "blocks" \in DOMAIN c.data.doc
    /\ Len(c.data.doc.blocks) > 0

\* The ways saveBlockchain fails.
SaveFailures == {"create", "encode", "rename"}

\* The steps inside saveBlockchain.
SaveSteps == {"create", "marshal", "write", "remove", "rename"}

\* C1: from a fresh chain, after any sequence of sequential AddBlock calls
\* (and restarts that load what was saved), Blocks[i].Pos = i for every
\* block and every block but the first names its predecessor's hash.
C1_PositionsAndLinks ==
    (BlockChain # NilChain /\ ~foreign) => Linked(BlockChain.Blocks)

\* C1's case: two appends were made to a fresh chain.
C1_Witness ==
    /\ ~foreign
    /\ crashes = 0
    /\ pc["h1"] = "respond"
    /\ Len(BlockChain.Blocks) = 3

\* C2: under concurrent append requests the chain never holds two blocks
\* with the same position or the same Prevhash (as it would if two appends
\* had read the same last block).
C2_NoSiblings ==
    BlockChain # NilChain =>
        \A i, j \in 1..Len(BlockChain.Blocks) :
            i < j => /\ BlockChain.Blocks[i].Pos # BlockChain.Blocks[j].Pos
                     /\ BlockChain.Blocks[i].Prevhash # BlockChain.Blocks[j].Prevhash

\* C3: when saveBlockchain has failed at any step, chainFile is what it was
\* when the save began (stated for a chainFile that held a chain of this
\* program's when the save began).
C3_FailedSaveKeepsStore ==
    \A p \in Threads :
        (pc[p] = AfterSave(p) /\ loc[p].save \in SaveFailures
            /\ ~foreign /\ AdoptableFile(loc[p].before)) => Canon(fs) = loc[p].before

\* C4: at every step inside a save that found a chain of this program's in
\* chainFile, chainFile exists and holds that snapshot or the new one.
C4_AtomicReplace ==
    \A p \in Threads :
        (pc[p] \in SaveSteps /\ ~foreign /\ AdoptableFile(loc[p].before)) =>
            /\ Canon(fs).exists
            /\ Canon(fs).data \in {loc[p].before.data, Json(MarshalChain(ChainOf(p)))}

\* C5 as claimed: every chain NewBlockChain returns, fresh or adopted from
\* chainFile, starts with a genesis block whose hash verifies.
C5_ReturnedChainStartsWithGenesis ==
    pc["main"] = "ret" => IsGenesisBlock(loc["main"].bc.Blocks[1])

\* C5 as amended: every chain NewBlockChain returns, fresh or adopted from
\* a chainFile that saveBlockchain wrote, starts with a genesis block whose
\* hash verifies.
C5_OwnChainStartsWithGenesis ==
    (pc["main"] = "ret" /\ ~foreign) => IsGenesisBlock(loc["main"].bc.Blocks[1])

\* C5's case: after a restart NewBlockChain returns the chain of two or more
\* blocks it found in chainFile.
C5_Witness ==
    /\ pc["main"] = "ret"
    /\ ~foreign
    /\ crashes > 0
    /\ loc["main"].save = "none"
    /\ Len(loc["main"].bc.Blocks) >= 2

\* C6: a saveBlockchain that succeeded, followed by loadBlockchain, gives a
\* chain with the same blocks, field by field.
C6_RoundTrip ==
    \A p \in Threads :
        (pc[p] = AfterSave(p) /\ loc[p].save = "ok") => loadBlockchain(fs) = ChainOf(p)

\* C6's case: a chain of three blocks was saved.
C6_Witness ==
    /\ pc["h1"] = "respond"
    /\ loc["h1"].save = "ok"
    /\ Len(BlockChain.Blocks) = 3
    /\ loadBlockchain(fs) # NilChain

\* C7: when the save AddBlock triggered has failed, the new block is the
\* last of the chain in memory, one longer than it was, the chain is still
\* linked, and the handler goes on to answer.
C7_FailedSaveKeepsAppend ==
    \A p \in Handlers :
        (pc[p] \in {"respond", "panic"} /\ loc[p].save \in SaveFailures) =>
            LET bs == BlockChain.Blocks
                n == Len(bs)
            IN /\ pc[p] = "respond"
               /\ n = Len(loc[p].slice) + 1
               /\ bs[n] = loc[p].block
               /\ bs[n].Prevhash = bs[n - 1].Hash
               /\ bs[n].Pos = bs[n - 1].Pos + 1
               /\ ~foreign => Linked(bs)

\* C7's case: the save of a second append failed at its rename.
C7_Witness ==
    /\ pc["h1"] = "respond"
    /\ loc["h1"].save = "rename"
    /\ Len(BlockChain.Blocks) = 3

\* C8: a block that validly succeeds its predecessor and then has one of
\* Pos, Timestamp, Data, Prevhash changed, its Hash left alone, is rejected
\* by validBlock.
C8_TamperDetected ==
    (probe.state = "tampered" /\ probe.runs = 1) => ~probe.ok

\* C8's case: a block whose Data was changed has been validated.
C8_Witness ==
    /\ probe.state = "tampered"
    /\ probe.field = "Data"
    /\ probe.runs = 1

\* C9: NewBlockChain returns the chain of chainFile as it is exactly when
\* chainFile exists and holds a non-empty block sequence; otherwise it
\* returns one genesis block and has run saveBlockchain on it.
C9_AdoptOrSynthesize ==
    pc["main"] = "ret" =>
        LET bc == loc["main"].bc
            was == loc["main"].before
        IN IF AdoptableFile(was)
           THEN /\ loc["main"].save = "none"
                /\ Canon(fs) = was
                /\ bc.Blocks = UnmarshalBlocks(was.data.doc.blocks)
           ELSE /\ loc["main"].save # "none"
                /\ Len(bc.Blocks) = 1
                /\ IsGenesisBlock(bc.Blocks[1])
                /\ loc["main"].save = "ok" =>
                      Canon(fs).data = Json([blocks |-> <<MarshalBlock(bc.Blocks[1])>>])

\* C9's case: chainFile was there but held no chain, and the fresh chain
\* has been saved over it.
C9_Witness ==
    /\ pc["main"] = "ret"
    /\ loc["main"].before.exists
    /\ loc["main"].save = "ok"

\* C10: a chainFile that is missing, unreadable or not JSON makes
\* loadBlockchain return nil and NewBlockChain return a fresh chain of one
\* genesis block, and no content of chainFile makes the process fault, at
\* startup or on a later append.
C10_StoreNeverFaults ==
    /\ \A p \in Threads : pc[p] # "panic"
    /\ (pc["main"] = "ret" /\ (~loc["main"].before.exists
                                \/ loc["main"].before.mode # "rw"
                                \/ loc["main"].before.data.kind # "json")) =>
          /\ Len(loc["main"].bc.Blocks) = 1
          /\ IsGenesisBlock(loc["main"].bc.Blocks[1])

\* The chain a chainFile holds for a reader: nil when it is missing,
\* unreadable or not one JSON document.
ChainHeldBy(c) ==
    IF c.exists /\ c.mode = "rw" /\ c.data.kind = "json"
    THEN [Blocks |-> UnmarshalBlocks(Member(c.data.doc, "blocks", <<>>))]
    ELSE NilChain

\* The steps of saveBlockchain after the temp file was created and before
\* chainFile is removed.
TempOnlySteps == {"marshal", "write", "remove"}

\* C11: while a save has created or written the temp file and not yet
\* touched chainFile, chainFile is what it was and a load gives the chain it
\* held; and a NewBlockChain that finds a leftover temp file beside a usable
\* chainFile returns the chain of chainFile.
C11_LeftoverTempIgnored ==
    /\ \A p \in Threads :
          pc[p] \in TempOnlySteps =>
              /\ Canon(fs) = loc[p].before
              /\ loadBlockchain(fs) = ChainHeldBy(loc[p].before)
    /\ (pc["main"] = "ret" /\ loc["main"].save = "none" /\ Exists(fs, tmpFile)) =>
          loc["main"].bc = ChainHeldBy(loc["main"].before)

\* C11's case: the process was killed inside a save, and the restart found
\* the temp file, holding something else, beside a chainFile of two blocks.
C11_Witness ==
    /\ pc["main"] = "ret"
    /\ crashes > 0
    /\ ~foreign
    /\ loc["main"].save = "none"
    /\ Exists(fs, tmpFile)
    /\ Lookup(fs, tmpFile).data # Canon(fs).data
    /\ Len(loc["main"].bc.Blocks) >= 2

\* C12: a step of the one-writer program changes the chain in memory only
\* by adding one block at its end: the blocks already there keep their
\* index and every field, and the chain is never reordered or shortened.
C12_AppendOnly ==
    [][(BlockChain # NilChain /\ BlockChain' # NilChain /\ BlockChain' # BlockChain) =>
          /\ Len(BlockChain'.Blocks) = Len(BlockChain.Blocks) + 1
          /\ SubSeq(BlockChain'.Blocks, 1, Len(BlockChain.Blocks)) = BlockChain.Blocks]_vars

\* C12's case: AddBlock has just stored a third block.
C12_Witness ==
    /\ pc["h1"] = "create"
    /\ Len(BlockChain.Blocks) = 3
    /\ BlockChain.Blocks = Append(loc["h1"].slice, loc["h1"].block)

\* C13: with one writer, when AddBlock has returned and its save succeeded,
\* chainFile holds the whole chain in memory, the blocks whose own save
\* failed included.
C13_SuccessfulSaveHoldsWholeChain ==
    \A p \in Handlers :
        (pc[p] = "respond" /\ loc[p].save = "ok") =>
            /\ Canon(fs).exists
            /\ Canon(fs).data.kind = "json"
            /\ Canon(fs).data.doc = [blocks |-> MarshalBlocks(BlockChain.Blocks)]

\* C13's case: the save of the third block succeeded, and found a chainFile
\* that did not hold the second block, whose save had failed.
C13_Witness ==
    /\ pc["h1"] = "respond"
    /\ loc["h1"].save = "ok"
    /\ ~foreign
    /\ crashes = 0
    /\ Len(BlockChain.Blocks) = 3
    /\ DocSize(loc["h1"].before.data) < 2

\* C14: once NewBlockChain has returned, the chain holds at least one block
\* in every state, loaded or fresh and after any appends, so the index of
\* AddBlock's read of the last block is in range.
C14_ChainNeverEmpty ==
    /\ pc["main"] = "ret" => Len(loc["main"].bc.Blocks) >= 1
    /\ pc["main"] = "serving" => (BlockChain # NilChain /\ Len(BlockChain.Blocks) >= 1)
    /\ \A p \in Handlers : pc[p] # "idle" => Len(BlockChain.Blocks) >= 1

\* C14's case: a chain loaded from chainFile after a restart is appended to.
C14_Witness ==
    /\ crashes > 0
    /\ pc["main"] = "serving"
    /\ pc["h1"] = "append"
    /\ loc["h1"].prevBlock = BlockChain.Blocks[Len(BlockChain.Blocks)]

\* C15: no append is lost under concurrency: the block of every request
\* whose AddBlock has returned is in the chain in memory.  (Two requests
\* with the same payload, time and predecessor make equal blocks, so the
\* blocks are looked for, not counted.)
C15_NoAppendLost ==
    \A p \in Handlers :
        pc[p] = "respond" =>
            \E i \in 1..Len(BlockChain.Blocks) : BlockChain.Blocks[i] = loc[p].block

\* C16: under concurrent appends with no failing system call, once every
\* request has returned from AddBlock, chainFile exists and holds the whole
\* chain in memory.
C16_ConcurrentSavesConverge ==
    (pc["main"] = "serving" /\ \A p \in Handlers : pc[p] \in {"idle", "respond"}) =>
        /\ Canon(fs).exists
        /\ Canon(fs).data = Json([blocks |-> MarshalBlocks(BlockChain.Blocks)])

\* C17: every AddBlock call on a chain of at least one block finds its
\* candidate valid and goes on to append it (never discards it, never
\* faults), the append adds exactly that one block at the end, and AddBlock
\* returns only after one call of saveBlockchain.
C17_EveryAddBlockAppends ==
    [][\A p \in Handlers :
          /\ (pc[p] = "idle" /\ pc'[p] # "idle" /\ Len(BlockChain.Blocks) >= 1) =>
                pc'[p] = "append"
          /\ (pc[p] = "store" /\ pc'[p] = "create") =>
                BlockChain'.Blocks = Append(BlockChain.Blocks, loc[p].block)
          /\ (pc[p] # "respond" /\ pc'[p] = "respond") =>
                loc'[p].save # "none"]_vars

\* C18: a call of validBlock(block, prevBlock) leaves both blocks as they
\* were, block.Hash included, and a second call on the same pair returns
\* what the first returned.
C18_ValidationHasNoEffect ==
    [][probe'.runs = probe.runs + 1 =>
          /\ probe'.block = probe.block
          /\ probe'.prev = probe.prev
          /\ probe.runs >= 1 => probe'.ok = probe.ok]_vars

====
